---- MODULE Spec2Model ----
(***************************************************************************)
(* Task Manager front end: the root component App (frontend/src/App.jsx)   *)
(* and the API client (frontend/src/api/tasks.js).                         *)
(*                                                                         *)
(* Every handler of App is an async function: it runs up to an await, the  *)
(* request travels, the server answers, and the handler resumes when the   *)
(* promise settles.  Each invocation of a handler is one entry of `calls`; *)
(* any number of them may be suspended at the same time.  The back end is  *)
(* not part of the repository; it is modelled from the REST contract the   *)
(* client assumes.                                                         *)
(***************************************************************************)
EXTENDS Integers, Sequences, FiniteSets, TLC

(* ------------------------------ bounds --------------------------------- *)

\* handler invocations started by the user after the mount
MaxActions == 2
\* length of the text the user types in the input
MaxDraftLen == 2
\* tasks the back end holds when the page is opened
MaxInitTasks == 2
\* edits of the input
MaxEdits == 1
\* requests that are refused or lost
MaxFaults == 1

(* ------------------------------ values --------------------------------- *)

Chars == {" ", "a"}

Drafts == UNION {[1..n -> Chars] : n \in 0..MaxDraftLen}

Task(id, title, completed) == [id |-> id, title |-> title, completed |-> completed]

\* a parsed JSON value: an array of tasks, or an object
JsonArray(s) == [json |-> "array", items |-> s]

JsonObject(s) == [json |-> "object", items |-> s]

\* the JSON body of an error answer, e.g. {"error": "..."}
ErrorBody == JsonObject(<<>>)

Response(status, parseable, body) ==
    [kind |-> "response", status |-> status, parseable |-> parseable, body |-> body]

\* fetch() rejected: no response at all
NetError == [kind |-> "neterr", status |-> 0, parseable |-> FALSE, body |-> ErrorBody]

NoRequest == [op |-> "none", id |-> 0, title |-> <<>>]

Resolved(v) == [rejected |-> FALSE, value |-> v]

Rejected == [rejected |-> TRUE, value |-> ErrorBody]

(* ------------------------------ state ---------------------------------- *)

VARIABLES
    tasks,        \* useState([]): the task list shown
    newTask,      \* useState(''): the draft in the input
    calls,        \* the handler invocations, in the order they were started
    server,       \* the back end's task list
    nextId,       \* the id the back end gives the next task
    solo,         \* history: the invocation started last, and what it started from
    overlapped,   \* history: some invocation started while another was suspended
    version,      \* history: the number of mutations the back end has handled
    issued,       \* history: the number of getTasks requests issued
    lastApplied,  \* history: the getTasks response setTasks was last called with
    maxSeq,       \* history: the latest-issued getTasks whose response was applied
    edits,        \* history: the number of edits of the input
    faults        \* history: the number of requests refused or lost

vars == <<tasks, newTask, calls, server, nextId, solo, overlapped, version, issued,
          lastApplied, maxSeq, edits, faults>>

Live(c) == c.pc \in {"mutation", "refresh"}

Calls == 1..Len(calls)

AnyLive == \E i \in Calls : Live(calls[i])

(* --------------------------- api/tasks.js ------------------------------ *)

\* response.json()
json(r) == IF r.parseable THEN Resolved(r.body) ELSE Rejected

getTasksRequest == [op |-> "getTasks", id |-> 0, title |-> <<>>]

getTasksChecked(r) ==
    IF r.kind = "neterr" \/ r.status \notin {200, 204} THEN Rejected ELSE json(r)

getTasks(r) == IF r.kind = "neterr" THEN Rejected ELSE json(r)

createTaskRequestTrimmed(title) ==
    [op |-> "createTask", id |-> 0, title |-> SelectSeq(title, LAMBDA ch : ch /= " ")]

createTaskRequest(title) == [op |-> "createTask", id |-> 0, title |-> title]

createTaskCaught(r) == Resolved(r.body)

createTask(r) == IF r.kind = "neterr" THEN Rejected ELSE json(r)

toggleTaskRequest(id) == [op |-> "toggleTask", id |-> id, title |-> <<>>]

toggleTask(r) == IF r.kind = "neterr" THEN Rejected ELSE json(r)

deleteTaskRequestPut(id) == [op |-> "toggleTask", id |-> id, title |-> <<>>]

deleteTaskRequest(id) == [op |-> "deleteTask", id |-> id, title |-> <<>>]

\* the body is never read
deleteTask(r) == IF r.kind = "neterr" THEN Rejected ELSE Resolved(ErrorBody)

(* ------------------------------ App.jsx -------------------------------- *)

IsSpace(ch) == ch = " "

RECURSIVE TrimStart(_)
TrimStart(s) == IF s /= <<>> /\ IsSpace(Head(s)) THEN TrimStart(Tail(s)) ELSE s

RECURSIVE TrimEnd(_)
TrimEnd(s) ==
    IF s /= <<>> /\ IsSpace(s[Len(s)]) THEN TrimEnd(SubSeq(s, 1, Len(s) - 1)) ELSE s

\* String.prototype.trim
trim(s) == TrimEnd(TrimStart(s))

EarlyReturnNoTrim(draft) == draft = <<>>

\* if (!newTask.trim()) return;
EarlyReturn(draft) == trim(draft) = <<>>

\* a handler invocation suspended at its first await, its request on the way;
\* mut: what became of its mutation request; gets: the getTasks it has issued;
\* seq, ver: which getTasks it issued and which version of the list it was given
Invoked(kind, req) ==
    [kind |-> kind, pc |-> "mutation", req |-> req, stage |-> "sent", resp |-> NetError,
     mut |-> "pending", gets |-> 0, seq |-> 0, ver |-> 0]

\* a handler invocation that has returned or thrown
Ended(c, pc) ==
    [c EXCEPT !.pc = pc, !.req = NoRequest, !.stage = "none", !.resp = NetError,
              !.seq = 0, !.ver = 0]

\* the answer the invocation's request got counts as a failure
Failure(c) ==
    \/ c.resp.kind = "neterr"
    \/ c.resp.status \notin {200, 204}
    \/ c.req.op /= "deleteTask" /\ ~c.resp.parseable

\* the invocation started last saw a failure
Seen(i, failure) == IF solo.call = i THEN [solo EXCEPT !.failed = @ \/ failure] ELSE solo

\* a new invocation starts, from the state as it is
Started(kind, req, alone) ==
    [call |-> Len(calls) + 1, kind |-> kind, id |-> req.id, title |-> req.title,
     draft |-> newTask, srvBefore |-> server, tasksBefore |-> tasks,
     alone |-> alone, edited |-> FALSE, failed |-> FALSE]

\* a handler is invoked and sends its mutation request
Start(kind, req) ==
    /\ Len(calls) < 1 + MaxActions
    /\ calls' = Append(calls, Invoked(kind, req))
    /\ solo' = Started(kind, req, ~AnyLive)
    /\ overlapped' = (overlapped \/ AnyLive)
    /\ UNCHANGED <<tasks, newTask, server, nextId, version, issued, lastApplied,
                   maxSeq, edits, faults>>

\* fetchTasks() up to its await: getTasks, the n-th issued, is on the way
fetchTasksTwice(c, n) ==
    [c EXCEPT !.pc = "refresh", !.req = getTasksRequest, !.stage = "sent",
              !.resp = NetError, !.gets = @ + 2, !.seq = n]

fetchTasks(c, n) ==
    [c EXCEPT !.pc = "refresh", !.req = getTasksRequest, !.stage = "sent",
              !.resp = NetError, !.gets = @ + 1, !.seq = n]

RefreshSkipped(i) ==
    /\ calls' = [calls EXCEPT ![i] = Ended([@ EXCEPT !.mut = "resolved"], "done")]
    /\ issued' = issued
    /\ solo' = Seen(i, Failure(calls[i]))

\* the awaited mutation of invocation i resolved: the handler goes on to fetchTasks()
Refresh(i) ==
    /\ calls' = [calls EXCEPT ![i] = fetchTasks([@ EXCEPT !.mut = "resolved"], issued + 1)]
    /\ issued' = issued + 1
    /\ solo' = Seen(i, Failure(calls[i]))

ThrowClearing(i) ==
    /\ calls' = [calls EXCEPT ![i] = Ended([@ EXCEPT !.mut = IF @ = "pending" THEN "rejected"
                                                           ELSE @],
                                           "rejected")]
    /\ solo' = Seen(i, TRUE)
    /\ tasks' = JsonArray(<<>>)
    /\ UNCHANGED <<newTask, issued, lastApplied, maxSeq>>

\* the awaited request of invocation i threw: the handler ends there
Throw(i) ==
    /\ calls' = [calls EXCEPT ![i] = Ended([@ EXCEPT !.mut = IF @ = "pending" THEN "rejected"
                                                           ELSE @],
                                           "rejected")]
    /\ solo' = Seen(i, TRUE)
    /\ UNCHANGED <<tasks, newTask, issued, lastApplied, maxSeq>>

\* setTasks(data)
setTasksIfAny(data) == IF data.items = <<>> THEN tasks ELSE data

setTasks(data) == data

\* const data = await getTasks(); setTasks(data);
fetchTasksResumed(i) ==
    /\ calls[i].pc = "refresh"
    /\ calls[i].stage = "replied"
    /\ LET out == getTasks(calls[i].resp) IN
       IF out.rejected THEN Throw(i)
       ELSE /\ tasks' = setTasks(out.value)
            /\ calls' = [calls EXCEPT ![i] = Ended(calls[i], "done")]
            /\ solo' = Seen(i, Failure(calls[i]))
            /\ lastApplied' = [seq |-> calls[i].seq, ver |-> calls[i].ver,
                               body |-> out.value]
            /\ maxSeq' = IF calls[i].seq > maxSeq THEN calls[i].seq ELSE maxSeq
            /\ UNCHANGED <<newTask, issued>>
    /\ UNCHANGED <<server, nextId, overlapped, version, edits, faults>>

\* onChange={(e) => setNewTask(e.target.value)}
onChange(v) ==
    /\ v /= newTask
    /\ edits < MaxEdits
    /\ edits' = edits + 1
    /\ newTask' = v
    /\ solo' = [solo EXCEPT !.edited = TRUE]
    /\ UNCHANGED <<tasks, calls, server, nextId, overlapped, version, issued,
                   lastApplied, maxSeq, faults>>

\* handleAddTask up to its await
handleAddTask ==
    IF EarlyReturn(newTask)
    THEN /\ Len(calls) < 1 + MaxActions
         /\ calls' = Append(calls, Ended(Invoked("add", NoRequest), "returned"))
         /\ solo' = Started("add", NoRequest, ~AnyLive)
         /\ UNCHANGED <<tasks, newTask, server, nextId, overlapped, version, issued,
                        lastApplied, maxSeq, edits, faults>>
    ELSE Start("add", createTaskRequest(newTask))

\* the rows shown: one TaskItem per element of tasks
Rows == IF tasks.json = "array" THEN {tasks.items[k].id : k \in 1..Len(tasks.items)} ELSE {}

\* handleToggleTask up to its await
handleToggleTask(id) == Start("toggle", toggleTaskRequest(id))

\* handleDeleteTask up to its await
handleDeleteTask(id) == Start("delete", deleteTaskRequest(id))

\* handleAddTask after await createTask(newTask)
handleAddTaskResumed(i) ==
    /\ calls[i].kind = "add"
    /\ calls[i].pc = "mutation"
    /\ calls[i].stage = "replied"
    /\ IF createTask(calls[i].resp).rejected THEN Throw(i)
       ELSE /\ newTask' = <<>>
            /\ Refresh(i)
            /\ UNCHANGED <<tasks, lastApplied, maxSeq>>
    /\ UNCHANGED <<server, nextId, overlapped, version, edits, faults>>

\* handleToggleTask after await toggleTask(id)
handleToggleTaskResumed(i) ==
    /\ calls[i].kind = "toggle"
    /\ calls[i].pc = "mutation"
    /\ calls[i].stage = "replied"
    /\ IF toggleTask(calls[i].resp).rejected THEN Throw(i)
       ELSE /\ Refresh(i)
            /\ UNCHANGED <<tasks, newTask, lastApplied, maxSeq>>
    /\ UNCHANGED <<server, nextId, overlapped, version, edits, faults>>

\* handleDeleteTask after await deleteTask(id)
handleDeleteTaskResumed(i) ==
    /\ calls[i].kind = "delete"
    /\ calls[i].pc = "mutation"
    /\ calls[i].stage = "replied"
    /\ IF deleteTask(calls[i].resp).rejected THEN Throw(i)
       ELSE /\ Refresh(i)
            /\ UNCHANGED <<tasks, newTask, lastApplied, maxSeq>>
    /\ UNCHANGED <<server, nextId, overlapped, version, edits, faults>>

(* ------------------------- network and back end ------------------------ *)

Ids(s) == {s[k].id : k \in 1..Len(s)}

Flip(s, id) ==
    [k \in 1..Len(s) |-> IF s[k].id = id THEN [s[k] EXCEPT !.completed = ~@] ELSE s[k]]

Remove(s, id) == SelectSeq(s, LAMBDA t : t.id /= id)

\* the back end's answer to a request, and its task list afterwards
Handle(req) ==
    CASE req.op = "getTasks" ->
           [resp |-> Response(200, TRUE, JsonArray(server)), server |-> server]
      [] req.op = "createTask" ->
           [resp |-> Response(200, TRUE, JsonObject(<<Task(nextId, req.title, FALSE)>>)),
            server |-> Append(server, Task(nextId, req.title, FALSE))]
      [] req.op = "toggleTask" ->
           IF req.id \in Ids(server)
           THEN [resp |-> Response(200, TRUE, JsonObject(<<>>)),
                 server |-> Flip(server, req.id)]
           ELSE [resp |-> Response(404, TRUE, ErrorBody), server |-> server]
      [] req.op = "deleteTask" ->
           [resp |-> Response(204, FALSE, ErrorBody), server |-> Remove(server, req.id)]

\* the back end handles the request of invocation i and answers it
ServerHandle(i) ==
    /\ Live(calls[i])
    /\ calls[i].stage = "sent"
    /\ LET h == Handle(calls[i].req)
           v == IF calls[i].req.op = "getTasks" THEN version ELSE version + 1
       IN
       /\ server' = h.server
       /\ nextId' = IF calls[i].req.op = "createTask" THEN nextId + 1 ELSE nextId
       /\ version' = v
       /\ calls' = [calls EXCEPT ![i].stage = "replied", ![i].resp = h.resp, ![i].ver = v]
    /\ UNCHANGED <<tasks, newTask, solo, overlapped, issued, lastApplied, maxSeq,
                   edits, faults>>

\* the back end refuses the request of invocation i: an error status, with a
\* JSON body or with a body that is not JSON
ServerRefuse(i, parseable) ==
    /\ Live(calls[i])
    /\ calls[i].stage = "sent"
    /\ faults < MaxFaults
    /\ faults' = faults + 1
    /\ calls' = [calls EXCEPT ![i].stage = "replied",
                              ![i].resp = Response(500, parseable, ErrorBody),
                              ![i].ver = version]
    /\ UNCHANGED <<tasks, newTask, server, nextId, solo, overlapped, version, issued,
                   lastApplied, maxSeq, edits>>

\* the request of invocation i, or its answer, is lost on the way
NetFail(i) ==
    /\ Live(calls[i])
    /\ calls[i].resp.kind /= "neterr" \/ calls[i].stage = "sent"
    /\ faults < MaxFaults
    /\ faults' = faults + 1
    /\ calls' = [calls EXCEPT ![i].stage = "replied", ![i].resp = NetError]
    /\ UNCHANGED <<tasks, newTask, server, nextId, solo, overlapped, version, issued,
                   lastApplied, maxSeq, edits>>

(* --------------------------- specification ----------------------------- *)

\* the back end's list when the page is opened: n tasks, the first k completed
InitServers ==
    {[i \in 1..n |-> Task(i, <<"a">>, i <= k)] : n \in 0..MaxInitTasks, k \in 0..MaxInitTasks}

\* the state once App is mounted: the effect has called fetchTasks()
Init ==
    /\ tasks = JsonArray(<<>>)
    /\ newTask = <<>>
    /\ server \in InitServers
    /\ nextId = Len(server) + 1
    /\ solo = [call |-> 1, kind |-> "mount", id |-> 0, title |-> <<>>, draft |-> <<>>,
               srvBefore |-> server, tasksBefore |-> JsonArray(<<>>),
               alone |-> TRUE, edited |-> FALSE, failed |-> FALSE]
    /\ calls = <<fetchTasks([Invoked("mount", NoRequest) EXCEPT !.mut = "none"], 1)>>
    /\ overlapped = FALSE
    /\ version = 0
    /\ issued = 1
    /\ lastApplied = [seq |-> 0, ver |-> 0, body |-> JsonArray(<<>>)]
    /\ maxSeq = 0
    /\ edits = 0
    /\ faults = 0

Next ==
    \/ \E v \in Drafts : onChange(v)
    \/ handleAddTask
    \/ \E id \in Rows : handleToggleTask(id)
    \/ \E id \in Rows : handleDeleteTask(id)
    \/ \E i \in Calls : handleAddTaskResumed(i)
    \/ \E i \in Calls : handleToggleTaskResumed(i)
    \/ \E i \in Calls : handleDeleteTaskResumed(i)
    \/ \E i \in Calls : fetchTasksResumed(i)
    \/ \E i \in Calls : ServerHandle(i)
    \/ \E i \in Calls : \E p \in BOOLEAN : ServerRefuse(i, p)
    \/ \E i \in Calls : NetFail(i)

Spec == Init /\ [][Next]_vars

\* the runs in which no request is refused or lost and the user starts an
\* action only when no invocation is suspended
NextSerial ==
    \/ \E v \in Drafts : onChange(v)
    \/ ~AnyLive /\ handleAddTask
    \/ \E id \in Rows : ~AnyLive /\ handleToggleTask(id)
    \/ \E id \in Rows : ~AnyLive /\ handleDeleteTask(id)
    \/ \E i \in Calls : handleAddTaskResumed(i)
    \/ \E i \in Calls : handleToggleTaskResumed(i)
    \/ \E i \in Calls : handleDeleteTaskResumed(i)
    \/ \E i \in Calls : fetchTasksResumed(i)
    \/ \E i \in Calls : ServerHandle(i)

SpecSerial == Init /\ [][NextSerial]_vars

\* the runs in which no request is refused or lost and the user only toggles
\* and deletes, at any time
NextRace ==
    \/ \E id \in Rows : handleToggleTask(id)
    \/ \E id \in Rows : handleDeleteTask(id)
    \/ \E i \in Calls : handleToggleTaskResumed(i)
    \/ \E i \in Calls : handleDeleteTaskResumed(i)
    \/ \E i \in Calls : fetchTasksResumed(i)
    \/ \E i \in Calls : ServerHandle(i)

SpecRace == Init /\ [][NextRace]_vars

(* ------------------------------ properties ----------------------------- *)

\* no handler invocation is suspended: no request is in flight
Quiescent == ~AnyLive

\* the step resumes invocation i with the answer its request got
Resumes(i) == calls[i].stage = "replied" /\ calls'[i].pc /= calls[i].pc

\* the request of c failed at transport level or its body could not be parsed
RequestFailed(c) ==
    \/ c.resp.kind = "neterr"
    \/ c.req.op /= "deleteTask" /\ ~c.resp.parseable

\* the answer to the request of c has an error status and a JSON body
ErrorStatus(c) ==
    /\ c.resp.kind = "response"
    /\ c.resp.parseable
    /\ c.resp.status \notin {200, 204}

\* the invocation started last has run to its end, alone and without a failure
SoloDone(kind) ==
    /\ solo.kind = kind
    /\ calls[solo.call].pc = "done"
    /\ solo.alone
    /\ ~solo.failed

\* C1: a submit while the trimmed draft is empty issues no request and changes
\* neither the task list, nor the draft, nor any other invocation.
C1_EmptySubmitNoOp ==
    [][(/\ Len(calls') = Len(calls) + 1
        /\ calls'[Len(calls')].kind = "add"
        /\ trim(newTask) = <<>>)
       => (/\ ~Live(calls'[Len(calls')])
           /\ calls'[Len(calls')].gets = 0
           /\ issued' = issued
           /\ \A i \in Calls : calls'[i] = calls[i]
           /\ tasks' = tasks
           /\ newTask' = newTask
           /\ server' = server)]_vars

\* a whitespace-only draft has been submitted
C1_Witness ==
    /\ solo.kind = "add"
    /\ calls[solo.call].pc = "returned"
    /\ solo.draft /= <<>>

\* C2: an Add started from an empty list, with a draft whose trimmed form is not
\* empty, run alone, with no edit and no failure, has sent the draft as typed in
\* one createTask and then one getTasks, and ends with the draft empty and the
\* list holding exactly one task, titled as the draft and not completed.
C2_AddFromEmpty ==
    (/\ SoloDone("add")
     /\ ~solo.edited
     /\ solo.srvBefore = <<>>
     /\ solo.tasksBefore = JsonArray(<<>>))
    => (/\ solo.title = solo.draft
        /\ calls[solo.call].mut = "resolved"
        /\ calls[solo.call].gets = 1
        /\ newTask = <<>>
        /\ tasks.json = "array"
        /\ Len(tasks.items) = 1
        /\ tasks.items[1].title = solo.draft
        /\ tasks.items[1].completed = FALSE)

\* such an Add has ended, its draft typed with blanks around the text
C2_Witness ==
    /\ SoloDone("add")
    /\ ~solo.edited
    /\ solo.srvBefore = <<>>
    /\ solo.tasksBefore = JsonArray(<<>>)
    /\ trim(solo.draft) /= solo.draft

\* C3: a Toggle of a task the back end holds, run alone and without a failure,
\* ends with the list shown being the back end's list as it was before, that
\* task's completed flag flipped and every other task as it was; when nothing
\* overlapped or failed before either, that is the list shown before, flipped.
C3_ToggleFlips ==
    (SoloDone("toggle") /\ solo.id \in Ids(solo.srvBefore))
    => (/\ tasks = JsonArray(Flip(solo.srvBefore, solo.id))
        /\ (~overlapped /\ faults = 0
              => tasks = JsonArray(Flip(solo.tasksBefore.items, solo.id))))

\* such a Toggle has ended with another task in the list
C3_Witness ==
    /\ SoloDone("toggle")
    /\ solo.id \in Ids(solo.srvBefore)
    /\ Len(solo.srvBefore) >= 2

\* C4: a Delete of any id, run alone and without a failure, ends with the list
\* shown being the back end's list as it was before without the task of that
\* id; when nothing overlapped or failed before either, that is the list shown
\* before without that task.
C4_DeleteRemoves ==
    SoloDone("delete")
    => (/\ tasks = JsonArray(Remove(solo.srvBefore, solo.id))
        /\ solo.id \notin Ids(tasks.items)
        /\ (~overlapped /\ faults = 0
              => tasks = JsonArray(Remove(solo.tasksBefore.items, solo.id))))

\* such a Delete has ended with another task left in the list
C4_Witness ==
    /\ SoloDone("delete")
    /\ solo.id \in Ids(solo.srvBefore)
    /\ tasks.items /= <<>>

\* C5 as claimed: every mutation request that has completed, with success or
\* with a failure, was followed by exactly one getTasks of the same invocation.
C5_RefreshAfterEveryMutation ==
    \A i \in Calls : calls[i].mut \in {"resolved", "rejected"} => calls[i].gets = 1

\* C5, amended: the mount issues one getTasks and no mutation; an invocation
\* whose mutation request resolved (whatever the status of the answer) has
\* issued exactly one getTasks; one whose mutation request was rejected (lost,
\* or answered with a body that is not JSON), is pending, or that returned
\* early has issued none.
C5_RefreshAfterResolvedMutation ==
    \A i \in Calls :
        /\ calls[i].kind = "mount" <=> i = 1
        /\ calls[i].kind = "mount" => calls[i].mut = "none" /\ calls[i].gets = 1
        /\ calls[i].mut = "resolved" => calls[i].gets = 1
        /\ calls[i].mut \in {"pending", "rejected"} => calls[i].gets = 0

\* a mutation request was rejected and its invocation issued no getTasks
C5_Witness == \E i \in Calls : calls[i].mut = "rejected" /\ calls[i].pc = "rejected"

\* C6: the list shown is the empty list it starts as or the body of the
\* getTasks response received last, and a step changes it only by ending a
\* refresh with the body of the response that refresh received.
C6_OnlyRefreshWrites ==
    /\ [](tasks = lastApplied.body)
    /\ [][tasks' /= tasks
          => \E i \in Calls : /\ calls[i].pc = "refresh"
                              /\ calls[i].stage = "replied"
                              /\ calls'[i].pc = "done"
                              /\ tasks' = calls[i].resp.body]_vars

\* the refresh of a user action has replaced the list
C6_Witness == lastApplied.seq > 1 /\ tasks /= JsonArray(<<>>)

\* C7: an answer with an error status and a JSON body resumes the handler as a
\* 2xx answer does: after a mutation the handler issues the refresh (Add having
\* cleared the draft), after getTasks the body replaces the list.
C7_StatusNotInspected ==
    [][\A i \in Calls :
         (Resumes(i) /\ ErrorStatus(calls[i]))
         => IF calls[i].pc = "mutation"
            THEN /\ calls'[i].pc = "refresh"
                 /\ calls'[i].req = getTasksRequest
                 /\ calls'[i].stage = "sent"
                 /\ calls'[i].gets = 1
                 /\ calls[i].kind = "add" => newTask' = <<>>
            ELSE /\ calls'[i].pc = "done"
                 /\ tasks' = calls[i].resp.body]_vars

\* the body of an error answer to getTasks is the list shown
C7_Witness == tasks = ErrorBody /\ faults = 1

\* C8: with no request in flight and no request refused or lost, the list
\* shown differs from the back end's only when the getTasks response applied
\* last was issued before one applied earlier, and was taken before a mutation
\* the back end has handled since.
C8_StaleRefreshOnly ==
    (Quiescent /\ faults = 0 /\ tasks /= JsonArray(server))
    => (lastApplied.seq < maxSeq /\ lastApplied.ver < version)

\* the interleaving exists: a stale response was applied last
C8_Witness ==
    /\ Quiescent
    /\ faults = 0
    /\ tasks /= JsonArray(server)
    /\ lastApplied.seq < maxSeq
    /\ lastApplied.ver < version

\* C9: a step that resumes a handler with a request that failed at transport
\* or JSON-parse level writes neither the list nor the draft, and a handler
\* step changes the draft only after a createTask that did not fail so.
C9_FailedRequestWritesNothing ==
    [][/\ \A i \in Calls :
            (Resumes(i) /\ RequestFailed(calls[i]))
            => (tasks' = tasks /\ newTask' = newTask /\ calls'[i].pc = "rejected")
       /\ (newTask' /= newTask /\ edits' = edits)
            => \E i \in Calls : /\ calls[i].kind = "add"
                                /\ calls[i].pc = "mutation"
                                /\ Resumes(i)
                                /\ ~RequestFailed(calls[i])]_vars

\* a createTask failed and the draft is still there
C9_Witness ==
    \E i \in Calls : /\ calls[i].kind = "add"
                     /\ calls[i].mut = "rejected"
                     /\ newTask /= <<>>
                     /\ edits = 1

\* C10: an invocation issues getTasks only once its mutation request has
\* resolved, and when no invocation ever overlapped another and no request was
\* refused or lost, the list shown equals the back end's list whenever no
\* request is in flight.
C10_SerialActionsInSync ==
    /\ \A i \in Calls : calls[i].kind /= "mount" /\ calls[i].gets > 0
                          => calls[i].mut = "resolved"
    /\ (~overlapped /\ faults = 0 /\ Quiescent) => tasks = JsonArray(server)

\* two user actions have run one after the other, each to its end
C10_Witness ==
    /\ ~overlapped
    /\ faults = 0
    /\ Len(calls) >= 3
    /\ \A i \in Calls : calls[i].pc = "done"
    /\ server /= solo.srvBefore

====
